---- MODULE Spec2Model ----
(***************************************************************************)
(* A model of mpd_rofi (src/src/main.rs): the MPD protocol client          *)
(* (MpdClient), its response parsers, and the selection flows of           *)
(* MusicSelector and main.                                                 *)
(*                                                                         *)
(* Strings are sequences of one-character strings, so that trim,           *)
(* starts_with, strip_prefix, split and find are computed as Rust computes *)
(* them.  Option<T> is a record [some, val].                               *)
(***************************************************************************)
EXTENDS Naturals, Integers, Sequences, FiniteSets, TLC

VARIABLES
    cli,      \* the parsed command line: [command, artist, album, preselect]
    qfile,    \* the quarantine file: [kind, content]
    pc,       \* position of main / the current MusicSelector method
    reading,  \* TRUE while send_command is in its read loop
    query,    \* the MpdClient query the read loop belongs to: [kind, scoped]
    rx,       \* raw lines read from the connection by the current send_command
    lines,    \* send_command's local `lines`
    ret,      \* what the last query returned: [ok, val, err]
    sent,     \* every line written to the connection, in order
    nTerm,    \* number of terminal lines (OK / ACK...) read from the connection
    spins,    \* iterations of the read loop that the model does not record, modulo 2
    loc,      \* locals of main: [artist, album, title, queue, playlist]
    stages,   \* the selection methods entered, in order
    picker,   \* every invocation of the rofi process, in order
    mpc,      \* every invocation of the mpc process, in order
    notes,    \* every invocation of notify-send, in order
    stdout,   \* what println! printed, in order (message kinds)
    out,      \* main's result: "running", "ok", "err"
    greeting, \* the first line read on connect
    inp,      \* input of the function under test (pure-function harness)
    fn,       \* the function the harness applied
    res       \* its result

vars == <<cli, qfile, pc, reading, query, rx, lines, ret, sent, nTerm, spins, loc,
          stages, picker, mpc, notes, stdout, out, greeting, inp, fn, res>>

flowVars == <<cli, qfile, pc, reading, query, rx, lines, ret, sent, nTerm, spins, loc,
              stages, picker, mpc, notes, stdout, out, greeting>>

harnessVars == <<inp, fn, res>>

(***************************************************************************)
(* Bounds                                                                  *)
(***************************************************************************)
MaxParseBody == 4   \* lines of a response body given to a parser

(***************************************************************************)
(* Strings                                                                 *)
(***************************************************************************)
WS == {" ", "\t", "\n", "\r"}

RECURSIVE trim_start(_)
trim_start(s) ==
    IF s # <<>> /\ Head(s) \in WS THEN trim_start(Tail(s)) ELSE s

RECURSIVE trim_end(_)
trim_end(s) ==
    IF s # <<>> /\ s[Len(s)] \in WS THEN trim_end(SubSeq(s, 1, Len(s) - 1)) ELSE s

trim(s) == trim_end(trim_start(s))

starts_with(s, p) == Len(s) >= Len(p) /\ SubSeq(s, 1, Len(p)) = p

\* Option<&str>: Some(rest) when s starts with p, None otherwise
None == [some |-> FALSE, val |-> <<>>]

Some(v) == [some |-> TRUE, val |-> v]

strip_prefix(s, p) ==
    IF starts_with(s, p) THEN Some(SubSeq(s, Len(p) + 1, Len(s))) ELSE None

\* is_empty that never answers true
is_empty_never(s) == FALSE

is_empty(s) == s = <<>>

\* the literals of the protocol
sOK == <<"O", "K">>

sACK == <<"A", "C", "K">>

sOKMPD == <<"O", "K", " ", "M", "P", "D">>

pAlbumArtist == <<"A", "l", "b", "u", "m", "A", "r", "t", "i", "s", "t", ":", " ">>

pAlbum == <<"A", "l", "b", "u", "m", ":", " ">>

pTitle == <<"T", "i", "t", "l", "e", ":", " ">>

pTrack == <<"T", "r", "a", "c", "k", ":", " ">>

pFile == <<"f", "i", "l", "e", ":", " ">>

(***************************************************************************)
(* The response parsers of MpdClient, as folds over the response body      *)
(***************************************************************************)
RECURSIVE list_albums_loop(_, _, _, _)
list_albums_loop(ls, current_artist, current_album, albums) ==
    IF ls = <<>> THEN albums
    ELSE LET line == Head(ls)
             aa == strip_prefix(line, pAlbumArtist)
             al == strip_prefix(line, pAlbum)
         IN  IF aa.some THEN list_albums_loop(Tail(ls), aa.val, current_album, albums)
             ELSE IF al.some THEN list_albums_loop(Tail(ls), current_artist, al.val, albums)
             ELSE IF starts_with(line, pFile) /\ ~is_empty(current_artist)
                                              /\ ~is_empty(current_album)
             THEN list_albums_loop(Tail(ls), current_artist, current_album,
                                   albums \cup {<<current_artist, current_album>>})
             ELSE list_albums_loop(Tail(ls), current_artist, current_album, albums)

\* the HashSet of (artist, album) pairs; its iteration order is unspecified
list_albums(ls) == list_albums_loop(ls, <<>>, <<>>, {})

RECURSIVE list_artists_loop(_, _)
list_artists_loop(ls, artists) ==
    IF ls = <<>> THEN artists
    ELSE LET aa == strip_prefix(Head(ls), pAlbumArtist)
         IN  IF aa.some /\ ~is_empty(trim(aa.val))
             THEN list_artists_loop(Tail(ls), Append(artists, aa.val))
             ELSE list_artists_loop(Tail(ls), artists)

list_artists(ls) == list_artists_loop(ls, <<>>)

RECURSIVE list_songs_loop(_, _, _, _, _)
list_songs_loop(ls, scoped, current_title, current_artist, songs) ==
    IF ls = <<>> THEN songs
    ELSE LET line == Head(ls)
             ti == strip_prefix(line, pTitle)
             aa == strip_prefix(line, pAlbumArtist)
         IN  IF ti.some THEN list_songs_loop(Tail(ls), scoped, ti.val, current_artist, songs)
             ELSE IF aa.some THEN list_songs_loop(Tail(ls), scoped, current_title, aa.val, songs)
             ELSE IF starts_with(line, pFile) /\ ~is_empty(current_title)
             THEN list_songs_loop(Tail(ls), scoped, <<>>, <<>>,
                      Append(songs, IF scoped THEN current_title
                                    ELSE current_artist \o <<"\t">> \o current_title))
             ELSE list_songs_loop(Tail(ls), scoped, current_title, current_artist, songs)

\* scoped: artist and album were both given (titles only); otherwise "artist\ttitle"
list_songs(ls, scoped) == list_songs_loop(ls, scoped, <<>>, <<>>, <<>>)

EmptyTrack == [artist |-> <<>>, album |-> <<>>, title |-> <<>>, track |-> None, file |-> <<>>]

\* the loop without the reset of current_track after the push
RECURSIVE get_playlist_loop_keep(_, _, _)
get_playlist_loop_keep(ls, current_track, tracks) ==
    IF ls = <<>> THEN tracks
    ELSE LET line == Head(ls)
             aa == strip_prefix(line, pAlbumArtist)
             al == strip_prefix(line, pAlbum)
             ti == strip_prefix(line, pTitle)
             tr == strip_prefix(line, pTrack)
             fi == strip_prefix(line, pFile)
         IN  IF aa.some THEN get_playlist_loop_keep(Tail(ls), [current_track EXCEPT !.artist = aa.val], tracks)
             ELSE IF al.some THEN get_playlist_loop_keep(Tail(ls), [current_track EXCEPT !.album = al.val], tracks)
             ELSE IF ti.some THEN get_playlist_loop_keep(Tail(ls), [current_track EXCEPT !.title = ti.val], tracks)
             ELSE IF tr.some THEN get_playlist_loop_keep(Tail(ls), [current_track EXCEPT !.track = Some(tr.val)], tracks)
             ELSE IF fi.some
             THEN get_playlist_loop_keep(Tail(ls), current_track,
                                         Append(tracks, [current_track EXCEPT !.file = fi.val]))
             ELSE get_playlist_loop_keep(Tail(ls), current_track, tracks)

RECURSIVE get_playlist_loop(_, _, _)
get_playlist_loop(ls, current_track, tracks) ==
    IF ls = <<>> THEN tracks
    ELSE LET line == Head(ls)
             aa == strip_prefix(line, pAlbumArtist)
             al == strip_prefix(line, pAlbum)
             ti == strip_prefix(line, pTitle)
             tr == strip_prefix(line, pTrack)
             fi == strip_prefix(line, pFile)
         IN  IF aa.some THEN get_playlist_loop(Tail(ls), [current_track EXCEPT !.artist = aa.val], tracks)
             ELSE IF al.some THEN get_playlist_loop(Tail(ls), [current_track EXCEPT !.album = al.val], tracks)
             ELSE IF ti.some THEN get_playlist_loop(Tail(ls), [current_track EXCEPT !.title = ti.val], tracks)
             ELSE IF tr.some THEN get_playlist_loop(Tail(ls), [current_track EXCEPT !.track = Some(tr.val)], tracks)
             ELSE IF fi.some
             THEN get_playlist_loop(Tail(ls), EmptyTrack,
                                    Append(tracks, [current_track EXCEPT !.file = fi.val]))
             ELSE get_playlist_loop(Tail(ls), current_track, tracks)

get_playlist(ls) == get_playlist_loop(ls, EmptyTrack, <<>>)

\* the lookup returning the last Album line of the response
find_song_album_last(ls) ==
    LET hits == { i \in 1..Len(ls) : strip_prefix(ls[i], pAlbum).some }
    IN  IF hits = {} THEN None
        ELSE strip_prefix(ls[CHOOSE i \in hits : \A j \in hits : j <= i], pAlbum)

RECURSIVE find_song_album_loop(_)
find_song_album_loop(ls) ==
    IF ls = <<>> THEN None
    ELSE LET al == strip_prefix(Head(ls), pAlbum)
         IN  IF al.some THEN Some(al.val) ELSE find_song_album_loop(Tail(ls))

find_song_album(ls) == find_song_album_loop(ls)

(***************************************************************************)
(* get_status: the HashMap of "key: value" lines, as a function            *)
(***************************************************************************)
sColonSpace == <<":", " ">>

sSong == <<"s", "o", "n", "g">>

\* str::find: the 0-based index of the first occurrence of pat, or None
find(s, pat) ==
    LET hits == { i \in 1..Len(s) : starts_with(SubSeq(s, i, Len(s)), pat) }
    IN  IF hits = {} THEN [some |-> FALSE, val |-> 0]
        ELSE [some |-> TRUE, val |-> (CHOOSE i \in hits : \A j \in hits : i <= j) - 1]

insert(map, key, value) ==
    [k \in (DOMAIN map) \cup {key} |-> IF k = key THEN value ELSE map[k]]

RECURSIVE get_status_loop(_, _)
get_status_loop(ls, status) ==
    IF ls = <<>> THEN status
    ELSE LET line == Head(ls)
             colon_pos == find(line, sColonSpace)
         IN  IF colon_pos.some
             THEN get_status_loop(Tail(ls),
                      insert(status, SubSeq(line, 1, colon_pos.val),
                                     SubSeq(line, colon_pos.val + 3, Len(line))))
             ELSE get_status_loop(Tail(ls), status)

get_status(ls) == get_status_loop(ls, <<>>)

Digits == <<"0", "1", "2", "3", "4", "5", "6", "7", "8", "9">>

DigitVal(c) == (CHOOSE i \in 1..10 : Digits[i] = c) - 1

IsDigit(c) == \E i \in 1..10 : Digits[i] = c

RECURSIVE digits_value(_, _)
digits_value(s, acc) ==
    IF s = <<>> THEN acc ELSE digits_value(Tail(s), acc * 10 + DigitVal(Head(s)))

\* str::parse::<usize>().ok() on strings of the model's alphabet (no sign)
parse_usize(s) ==
    IF s # <<>> /\ \A i \in 1..Len(s) : IsDigit(s[i])
    THEN [some |-> TRUE, val |-> digits_value(s, 0)]
    ELSE [some |-> FALSE, val |-> 0]

current_pos(status) ==
    IF sSong \in DOMAIN status
    THEN LET n == parse_usize(status[sSong]) IN IF n.some THEN n.val ELSE 0
    ELSE 0

(***************************************************************************)
(* The command lines of the queries                                        *)
(***************************************************************************)
sListAlbumartist == <<"l", "i", "s", "t", " ", "a", "l", "b", "u", "m", "a", "r", "t", "i", "s", "t">>

sListallinfo == <<"l", "i", "s", "t", "a", "l", "l", "i", "n", "f", "o">>

sPlaylistinfo == <<"p", "l", "a", "y", "l", "i", "s", "t", "i", "n", "f", "o">>

sStatus == <<"s", "t", "a", "t", "u", "s">>

sFindAlbumartist == <<"f", "i", "n", "d", " ", "a", "l", "b", "u", "m", "a", "r", "t", "i", "s", "t", " ", "\"">>

sAlbumArg == <<"\"", " ", "a", "l", "b", "u", "m", " ", "\"">>

sTitleArg == <<"\"", " ", "t", "i", "t", "l", "e", " ", "\"">>

sQuote == <<"\"">>

\* str::replace('"', "\\\"")
RECURSIVE replace_quote(_)
replace_quote(s) ==
    IF s = <<>> THEN <<>>
    ELSE (IF Head(s) = "\"" THEN <<"\\", "\"">> ELSE <<Head(s)>>) \o replace_quote(Tail(s))

list_albums_cmd(artist) ==
    IF artist.some THEN sFindAlbumartist \o replace_quote(artist.val) \o sQuote
    ELSE sListallinfo

list_songs_cmd(artist, album) ==
    IF artist.some /\ album.some
    THEN sFindAlbumartist \o replace_quote(artist.val) \o sAlbumArg
             \o replace_quote(album.val) \o sQuote
    ELSE sListallinfo

find_song_album_cmd(artist, title) ==
    sFindAlbumartist \o replace_quote(artist) \o sTitleArg \o replace_quote(title) \o sQuote

(***************************************************************************)
(* MpdClient::send_command: one command line written, then the read loop   *)
(***************************************************************************)
MaxBody == 3        \* body lines the server sends before a terminal line

MaxEof == 1         \* reads at end of stream before the model cuts the loop off

sMpdError == <<"M", "P", "D", " ", "e", "r", "r", "o", "r", ":", " ">>

lOK == sOK \o <<"\n">>

lACK == sACK \o <<" ", "e", "\n">>

\* what the server sends in answer to each query: the tags the command asks
\* for, in any order and number
AnswerLines(kind) ==
    CASE kind = "list_artists" -> { pAlbumArtist \o <<"a", "\n">>, pAlbumArtist \o <<"b", "\n">> }
      [] kind = "list_albums" -> { pAlbumArtist \o <<"a", "\n">>, pAlbum \o <<"x", "\n">>,
                                   pAlbum \o <<"y", "\n">>, pFile \o <<"f", "\n">> }
      [] kind = "list_songs" -> { pAlbumArtist \o <<"a", "\n">>, pTitle \o <<"t", "\n">>,
                                  pTitle \o <<"u", "\n">>, pFile \o <<"f", "\n">> }
      [] kind = "get_playlist" -> { pAlbumArtist \o <<"a", "\n">>, pAlbum \o <<"x", "\n">>,
                                    pTitle \o <<"t", "\n">>, pFile \o <<"f", "\n">> }
      [] kind = "get_status" -> { sSong \o sColonSpace \o <<"1", "\n">>,
                                  <<"s", "t", "a", "t", "e", ":", " ", "p", "\n">> }
      [] kind = "find_song_album" -> { pAlbum \o <<"x", "\n">>, pAlbum \o <<"y", "\n">>,
                                       pFile \o <<"f", "\n">> }
      \* a bare send_command: values with trailing and leading whitespace, an
      \* empty line, lines that resemble the terminal lines
      [] OTHER -> { pTitle \o <<"t", "\n">>, pTitle \o <<"t", " ", "\n">>,
                    pTitle \o <<" ", "t", "\n">>, <<"\n">>, <<" ", "O", "K", "\n">>,
                    <<"O", "K", "A", "Y", "\n">>, <<"x", " ", "A", "C", "K", "\n">> }

ServerLines == AnswerLines(query.kind) \cup {lOK, lACK}

\* protocol: a response ends with the line OK or with a line starting with ACK
line_text(raw) ==
    IF raw # <<>> /\ raw[Len(raw)] = "\n" THEN SubSeq(raw, 1, Len(raw) - 1) ELSE raw

is_terminal(raw) == line_text(raw) = sOK \/ starts_with(line_text(raw), sACK)

NoError == [kind |-> "none", text |-> <<>>]

Ok(v) == [ok |-> TRUE, val |-> v, err |-> NoError]

Err(kind, text) == [ok |-> FALSE, val |-> <<>>, err |-> [kind |-> kind, text |-> text]]

\* the query methods: `let lines = self.send_command(&cmd)?;` and the parse
query_return(q, r) ==
    IF ~r.ok THEN r
    ELSE CASE q.kind = "list_artists" -> Ok(list_artists(r.val))
           [] q.kind = "list_albums" -> Ok(list_albums(r.val))
           [] q.kind = "list_songs" -> Ok(list_songs(r.val, q.scoped))
           [] q.kind = "get_playlist" -> Ok(get_playlist(r.val))
           [] q.kind = "get_status" -> Ok(get_status(r.val))
           [] q.kind = "find_song_album" -> Ok(find_song_album(r.val))
           [] OTHER -> r

send_command(kind, scoped, cmd) ==
    /\ sent' = Append(sent, cmd \o <<"\n">>)
    /\ reading' = TRUE
    /\ query' = [kind |-> kind, scoped |-> scoped]
    /\ rx' = <<>>
    /\ lines' = <<>>
    /\ spins' = 0
    /\ UNCHANGED <<ret, nTerm>>

\* the loop body without its test for the error prefix
classify_no_ack(trimmed) == IF trimmed = sOK THEN "ok" ELSE "push"

\* the tests of the loop body on the trimmed line
classify(trimmed) ==
    IF trimmed = sOK THEN "ok"
    ELSE IF starts_with(trimmed, sACK) THEN "ack"
    ELSE "push"

\* one iteration of the loop on the line read_line delivered (empty at end of stream)
read_step(raw) ==
    LET trimmed == trim(raw)
        what == classify(trimmed)
    IN  /\ rx' = Append(rx, raw)
        /\ nTerm' = IF is_terminal(raw) THEN nTerm + 1 ELSE nTerm
        /\ IF what = "ok"
           THEN /\ reading' = FALSE
                /\ ret' = query_return(query, Ok(lines))
                /\ lines' = lines
           ELSE IF what = "ack"
           THEN /\ reading' = FALSE
                /\ ret' = query_return(query, Err("command", sMpdError \o trimmed))
                /\ lines' = lines
           ELSE /\ lines' = Append(lines, trimmed)
                /\ UNCHANGED <<reading, ret>>

at_eof == rx # <<>> /\ rx[Len(rx)] = <<>>

nonConnVars == <<cli, qfile, pc, greeting, loc, stages, picker, mpc, notes, stdout, out>>

\* the server sends a line and read_line returns it
ReadLine ==
    /\ reading
    /\ ~at_eof
    /\ Len(rx) <= MaxBody
    /\ \E raw \in ServerLines :
          /\ ~is_terminal(raw) => Len(rx) < MaxBody
          /\ read_step(raw)
    /\ UNCHANGED <<query, sent, spins, nonConnVars, harnessVars>>

\* the server has closed the connection: read_line returns Ok(0), the line is empty
ReadEof ==
    /\ reading
    /\ Cardinality({ i \in 1..Len(rx) : rx[i] = <<>> }) < MaxEof
    /\ read_step(<<>>)
    /\ UNCHANGED <<query, sent, spins, nonConnVars, harnessVars>>

\* read_line returns an error
ReadIoError ==
    /\ reading
    /\ ~at_eof
    /\ reading' = FALSE
    /\ ret' = query_return(query, Err("io", <<>>))
    /\ UNCHANGED <<rx, lines, nTerm, query, sent, spins, nonConnVars, harnessVars>>

(***************************************************************************)
(* Helpers of MusicSelector                                                *)
(***************************************************************************)
MaxQueue == 2       \* entries of the queue that `mpc playlist` lists

MaxQLines == 2      \* lines of the quarantine file

\* slice::iter().position: the 0-based index of the first element equal to x
position(items, x) ==
    LET hits == { i \in 1..Len(items) : items[i] = x }
    IN  IF hits = {} THEN [some |-> FALSE, val |-> 0]
        ELSE [some |-> TRUE, val |-> (CHOOSE i \in hits : \A j \in hits : i <= j) - 1]

\* str::split(c)
RECURSIVE split(_, _)
split(s, c) ==
    LET hit == find(s, <<c>>)
    IN  IF ~hit.some THEN <<s>>
        ELSE <<SubSeq(s, 1, hit.val)>> \o split(SubSeq(s, hit.val + 2, Len(s)), c)

RECURSIVE to_string(_)
to_string(n) ==
    IF n < 10 THEN <<Digits[n + 1]>>
    ELSE to_string(n \div 10) \o <<Digits[(n % 10) + 1]>>

\* format!("{:02}", n)
fmt02(n) == IF n < 10 THEN <<"0">> \o to_string(n) ELSE to_string(n)

\* the orders a shuffle (or the iteration of a HashSet) can produce
shuffle(s) ==
    { [i \in 1..Len(s) |-> s[f[i]]] :
        f \in { g \in [1..Len(s) -> 1..Len(s)] : \A i, j \in 1..Len(s) : g[i] = g[j] => i = j } }

\* a collect that keeps an element more than once
into_vec_repeating(set) ==
    UNION { { v \in [1..n -> set] : \A x \in set : \E i \in 1..n : v[i] = x } :
              n \in Cardinality(set)..(Cardinality(set) + 1) }

into_vec(set) ==
    { v \in [1..Cardinality(set) -> set] : \A i, j \in 1..Cardinality(set) : v[i] = v[j] => i = j }

tab_separated(pairs) == [i \in 1..Len(pairs) |-> pairs[i][1] \o <<"\t">> \o pairs[i][2]]

\* ---- the rofi process ----
\* 1: cancelled; 10: kb-custom-1 (queue); 0 stands for every other exit code
ExitCodes == {0, 1, 10}

RofiStdouts(n) == { <<>>, <<"x", "\n">> } \cup { to_string(i) \o <<"\n">> : i \in 0..(n + 1) }

RofiOutcomes(n) ==
    { [spawn |-> FALSE, exit |-> 1, text |-> <<>>] }
      \cup { [spawn |-> TRUE, exit |-> e, text |-> t] : e \in ExitCodes, t \in RofiStdouts(n) }

NoSelection == [ok |-> TRUE, sel |-> None, queue |-> FALSE]

\* rofi_select with the test of the exit code against 10 turned round
rofi_select_inverted(items, o) ==
    IF is_empty(items) THEN NoSelection
    ELSE IF ~o.spawn THEN [ok |-> FALSE, sel |-> None, queue |-> FALSE]
    ELSE IF o.exit = 1 THEN NoSelection
    ELSE LET text == trim(o.text)
             index == parse_usize(text)
         IN  IF ~is_empty(text) /\ index.some /\ index.val > 0 /\ index.val <= Len(items)
             THEN [ok |-> TRUE, sel |-> Some(items[index.val]), queue |-> (o.exit # 10)]
             ELSE NoSelection

\* rofi_select without the test of the exit code against 1
rofi_select_no_cancel(items, o) ==
    IF is_empty(items) THEN NoSelection
    ELSE IF ~o.spawn THEN [ok |-> FALSE, sel |-> None, queue |-> FALSE]
    ELSE LET text == trim(o.text)
             index == parse_usize(text)
         IN  IF ~is_empty(text) /\ index.some /\ index.val > 0 /\ index.val <= Len(items)
             THEN [ok |-> TRUE, sel |-> Some(items[index.val]), queue |-> (o.exit = 10)]
             ELSE NoSelection

rofi_select(items, o) ==
    IF is_empty(items) THEN NoSelection
    ELSE IF ~o.spawn THEN [ok |-> FALSE, sel |-> None, queue |-> FALSE]
    ELSE IF o.exit = 1 THEN NoSelection
    ELSE LET text == trim(o.text)
             index == parse_usize(text)
         IN  IF ~is_empty(text) /\ index.some /\ index.val > 0 /\ index.val <= Len(items)
             THEN [ok |-> TRUE, sel |-> Some(items[index.val]), queue |-> (o.exit = 10)]
             ELSE NoSelection

\* the rofi process is spawned only for a non-empty list
rofi_spawned(items, prompt, selected_row, use_column_formatting, o) ==
    IF is_empty(items) THEN picker
    ELSE Append(picker, [prompt |-> prompt, items |-> items, selected_row |-> selected_row,
                         columns |-> use_column_formatting, outcome |-> o])

\* ---- the mpc process ----
kwAlbum == <<"a", "l", "b", "u", "m">>

kwAlbumartist == <<"a", "l", "b", "u", "m", "a", "r", "t", "i", "s", "t">>

kwTitle == <<"t", "i", "t", "l", "e">>

Mpc(op, args) == [op |-> op, args |-> args, output |-> <<>>, ok |-> TRUE]

\* Command::new("mpc")...output()? in sequence: every command runs, or one fails
\* to start and the `?` returns the error
MpcRuns(cmds) ==
    { [log |-> [i \in 1..k |-> [cmds[i] EXCEPT !.ok = (i < k \/ ~f)]], ok |-> ~f] :
        <<k, f>> \in { kf \in (1..Len(cmds)) \X BOOLEAN : ~kf[2] => kf[1] = Len(cmds) } }

\* a queue entry without a Title tag is listed as an empty line
QueueTitles == { <<"t">>, <<>> }

MpcPlaylists == UNION { [1..n -> QueueTitles] : n \in 0..MaxQueue }

\* stdout of `mpc playlist -f %title%`: one line per queue entry
RECURSIVE playlist_str(_)
playlist_str(q) ==
    IF q = <<>> THEN <<>> ELSE Head(q) \o <<"\n">> \o playlist_str(Tail(q))

\* ---- notify-send ----
show_notification(artist, album, title) ==
    { Append(notes, [summary |-> IF title.some THEN "Now Playing" ELSE "Now Playing Album",
                     artist |-> artist, album |-> album, title |-> title, shown |-> d]) :
        d \in BOOLEAN }

\* ---- the quarantine file ----
RECURSIVE next_quote(_, _)
next_quote(s, i) ==
    IF i > Len(s) THEN 0 ELSE IF s[i] = "\"" THEN i ELSE next_quote(s, i + 1)

RECURSIVE skip_ws(_, _)
skip_ws(s, i) ==
    IF i <= Len(s) /\ s[i] \in WS THEN skip_ws(s, i + 1) ELSE i

NoCaptures == [some |-> FALSE, artist |-> <<>>, album |-> <<>>]

\* the regex without its \s*: ^"([^"]*)","([^"]*)"$
re_captures_strict(line) ==
    IF Len(line) < 1 \/ line[1] # "\"" THEN NoCaptures
    ELSE LET q1 == next_quote(line, 2)
         IN  IF q1 = 0 \/ q1 + 1 > Len(line) THEN NoCaptures
             ELSE IF line[q1 + 1] # "," THEN NoCaptures
             ELSE LET k == q1 + 2
                  IN  IF k > Len(line) THEN NoCaptures
                      ELSE IF line[k] # "\"" THEN NoCaptures
                      ELSE LET q2 == next_quote(line, k + 1)
                           IN  IF q2 = 0 \/ q2 # Len(line) THEN NoCaptures
                               ELSE [some |-> TRUE, artist |-> SubSeq(line, 2, q1 - 1),
                                     album |-> SubSeq(line, k + 1, q2 - 1)]

\* Regex ^"([^"]*)",\s*"([^"]*)"$
re_captures(line) ==
    IF Len(line) < 1 \/ line[1] # "\"" THEN NoCaptures
    ELSE LET q1 == next_quote(line, 2)
         IN  IF q1 = 0 \/ q1 + 1 > Len(line) THEN NoCaptures
             ELSE IF line[q1 + 1] # "," THEN NoCaptures
             ELSE LET k == skip_ws(line, q1 + 2)
                  IN  IF k > Len(line) THEN NoCaptures
                      ELSE IF line[k] # "\"" THEN NoCaptures
                      ELSE LET q2 == next_quote(line, k + 1)
                           IN  IF q2 = 0 \/ q2 # Len(line) THEN NoCaptures
                               ELSE [some |-> TRUE, artist |-> SubSeq(line, 2, q1 - 1),
                                     album |-> SubSeq(line, k + 1, q2 - 1)]

RECURSIVE quarantine_loop(_, _)
quarantine_loop(ls, albums) ==
    IF ls = <<>> THEN albums
    ELSE LET line == trim(Head(ls))
             captures == re_captures(line)
         IN  IF is_empty(line) THEN quarantine_loop(Tail(ls), albums)
             ELSE IF captures.some
             THEN quarantine_loop(Tail(ls), Append(albums, <<captures.artist, captures.album>>))
             ELSE quarantine_loop(Tail(ls), albums)

\* qf.kind: "nohome" (HOME unset), "absent", "unreadable" (the file cannot be
\* read), "binary" (its bytes are not valid UTF-8), "text"; read_to_string
\* fails for the unreadable and for the binary file
load_quarantine_albums(qf) ==
    IF qf.kind = "nohome" THEN Err("env", <<>>)
    ELSE IF qf.kind = "absent" THEN Ok(<<>>)
    ELSE IF qf.kind \in {"unreadable", "binary"} THEN Err("io", <<>>)
    ELSE Ok(quarantine_loop(qf.content, <<>>))

QLines ==
    { <<"\"", "a", "\"", ",", "\"", "x", "\"">>,
      <<"\"", "a", "\"", ",", " ", "\"", "x", "\"">>,
      <<"j", "u", "n", "k">>,
      <<>> }

QFiles ==
    { [kind |-> k, content |-> <<>>] : k \in {"nohome", "absent", "unreadable", "binary"} }
      \cup { [kind |-> "text", content |-> c] : c \in UNION { [1..n -> QLines] : n \in 0..MaxQLines } }

(***************************************************************************)
(* main and the flows of MusicSelector.  A method that queries the server  *)
(* is two actions: up to its send_command, and from the query's return.    *)
(***************************************************************************)
Commands == {"Artist", "Album", "Song", "Random", "Quarantine", "RandomQuarantine",
             "Playlist", "None"}

CliArgs == { None, Some(<<"a">>) }

Preselects == {0, 1}

\* the options are varied in the Album flow (the only reader of --artist and
\* --album), the quarantine file in the two quarantine flows (its only readers)
Clis ==
    { c \in [command : Commands, artist : CliArgs, album : CliArgs, preselect : Preselects] :
        c.command # "Album" => (c.artist = None /\ c.album = None /\ c.preselect = 0) }

Greetings == { sOKMPD \o <<" ", "0", "\n">>, <<"h", "i", "\n">>, <<"O", "K", "\n">>, <<>> }

NoLocals == [artist |-> None, album |-> None, title |-> None, queue |-> FALSE, playlist |-> <<>>]

Init ==
    /\ cli \in Clis
    /\ qfile \in { q \in QFiles :
                     cli.command \notin {"Quarantine", "RandomQuarantine"} => q.kind = "absent" }
    /\ pc = "main"
    /\ reading = FALSE
    /\ query = [kind |-> "none", scoped |-> FALSE]
    /\ rx = <<>>
    /\ lines = <<>>
    /\ ret = Ok(<<>>)
    /\ sent = <<>>
    /\ nTerm = 0
    /\ spins = 0
    /\ loc = NoLocals
    /\ stages = <<>>
    /\ picker = <<>>
    /\ mpc = <<>>
    /\ notes = <<>>
    /\ stdout = <<>>
    /\ out = "running"
    /\ greeting = <<>>
    /\ inp = [body |-> <<>>, scoped |-> FALSE]
    /\ fn = "none"
    /\ res = <<>>

connVars == <<reading, query, rx, lines, ret, sent, nTerm, spins>>

\* a query has returned: send_command's locals are gone
returned == rx' = <<>> /\ lines' = <<>> /\ UNCHANGED <<reading, query, ret, sent, nTerm, spins>>

Finish(result) == pc' = "done" /\ out' = result

\* the arm of main's match that runs, and the arguments its first call gets
entry(c) ==
    CASE c.command = "Artist" -> "select_artist"
      [] c.command = "Album" -> IF c.artist.some /\ c.album.some THEN "select_song"
                                ELSE "select_album"
      [] c.command = "Song" -> "select_song"
      [] c.command = "Random" -> "play_random_album"
      [] c.command = "Quarantine" -> "select_quarantine_album"
      [] c.command = "RandomQuarantine" -> "play_random_quarantine_album"
      [] c.command = "Playlist" -> "show_playlist"
      [] OTHER -> "select_album"

entry_locals(c) ==
    IF c.command = "Album"
    THEN IF c.artist.some /\ c.album.some
         THEN [NoLocals EXCEPT !.artist = c.artist, !.album = c.album]
         ELSE [NoLocals EXCEPT !.artist = c.artist]
    ELSE NoLocals

\* connect without its test of the greeting
connect_unchecked ==
    /\ pc = "main"
    /\ \E connected \in BOOLEAN, g \in Greetings :
          /\ greeting' = IF connected THEN g ELSE <<>>
          /\ IF connected
             THEN pc' = entry(cli) /\ loc' = entry_locals(cli) /\ out' = out
             ELSE Finish("err") /\ loc' = loc
    /\ UNCHANGED <<cli, qfile, connVars, stages, picker, mpc, notes, stdout, harnessVars>>

\* MusicSelector::new: connect failed, or the first line the server sent
connect ==
    /\ pc = "main"
    /\ \E connected \in BOOLEAN, g \in Greetings :
          /\ greeting' = IF connected THEN g ELSE <<>>
          /\ IF connected /\ starts_with(g, sOKMPD)
             THEN pc' = entry(cli) /\ loc' = entry_locals(cli) /\ out' = out
             ELSE Finish("err") /\ loc' = loc
    /\ UNCHANGED <<cli, qfile, connVars, stages, picker, mpc, notes, stdout, harnessVars>>

select_artist ==
    /\ pc = "select_artist"
    /\ stages' = Append(stages, "select_artist")
    /\ send_command("list_artists", FALSE, sListAlbumartist)
    /\ pc' = "select_artist_rest"
    /\ UNCHANGED <<cli, qfile, greeting, loc, picker, mpc, notes, stdout, out, harnessVars>>

\* select_artist handing the alternate exit on, and main queueing the artist
select_artist_rest_queue ==
    /\ pc = "select_artist_rest"
    /\ ~reading
    /\ returned
    /\ IF ~ret.ok THEN Finish("err") /\ UNCHANGED <<loc, picker, stdout, mpc>>
       ELSE IF is_empty(ret.val)
       THEN /\ stdout' = Append(stdout, "No artists found")
            /\ Finish("ok")
            /\ UNCHANGED <<loc, picker, mpc>>
       ELSE \E artists \in shuffle(ret.val) : \E o \in RofiOutcomes(Len(artists)) :
              LET r == rofi_select(artists, o)
              IN  /\ picker' = rofi_spawned(artists, "Artist:", 0, FALSE, o)
                  /\ stdout' = stdout
                  /\ IF ~r.ok THEN Finish("err") /\ UNCHANGED <<loc, mpc>>
                     ELSE IF ~r.sel.some THEN Finish("ok") /\ UNCHANGED <<loc, mpc>>
                     ELSE IF r.queue
                     THEN /\ mpc' = Append(mpc, Mpc("findadd", <<kwAlbumartist, r.sel.val>>))
                          /\ loc' = [loc EXCEPT !.artist = r.sel, !.queue = TRUE]
                          /\ Finish("ok")
                     ELSE /\ loc' = [loc EXCEPT !.artist = r.sel]
                          /\ pc' = "select_album"
                          /\ out' = out
                          /\ mpc' = mpc
    /\ UNCHANGED <<cli, qfile, greeting, stages, notes, harnessVars>>

\* the rest of select_artist, and main's `if let Some(artist)`
select_artist_rest ==
    /\ pc = "select_artist_rest"
    /\ ~reading
    /\ returned
    /\ IF ~ret.ok THEN Finish("err") /\ UNCHANGED <<loc, picker, stdout>>
       ELSE IF is_empty(ret.val)
       THEN stdout' = Append(stdout, "No artists found") /\ Finish("ok") /\ UNCHANGED <<loc, picker>>
       ELSE \E artists \in shuffle(ret.val) : \E o \in RofiOutcomes(Len(artists)) :
              LET r == rofi_select(artists, o)
              IN  /\ picker' = rofi_spawned(artists, "Artist:", 0, FALSE, o)
                  /\ stdout' = stdout
                  /\ IF ~r.ok THEN Finish("err") /\ loc' = loc
                     ELSE IF ~r.sel.some THEN Finish("ok") /\ loc' = loc
                     ELSE loc' = [loc EXCEPT !.artist = r.sel] /\ pc' = "select_album" /\ out' = out
    /\ UNCHANGED <<cli, qfile, greeting, stages, mpc, notes, harnessVars>>

select_album ==
    /\ pc = "select_album"
    /\ stages' = Append(stages, "select_album")
    /\ send_command("list_albums", FALSE, list_albums_cmd(loc.artist))
    /\ pc' = "select_album_rest"
    /\ UNCHANGED <<cli, qfile, greeting, loc, picker, mpc, notes, stdout, out, harnessVars>>

findadd_album(artist, album) == Mpc("findadd", <<kwAlbum, album, kwAlbumartist, artist>>)

\* main without its queue_mode branch: every chosen album goes on to select_song
main_album_narrow(artist, album, queue_mode) ==
    /\ mpc' = mpc
    /\ loc' = [loc EXCEPT !.artist = Some(artist), !.album = Some(album)]
    /\ pc' = "select_song"
    /\ out' = out

\* main, once an album is chosen: queue the album, or go on to select_song
main_album(artist, album, queue_mode) ==
    IF queue_mode
    THEN \E run \in MpcRuns(<<findadd_album(artist, album)>>) :
            /\ mpc' = mpc \o run.log
            /\ loc' = [loc EXCEPT !.artist = Some(artist), !.album = Some(album), !.queue = TRUE]
            /\ Finish(IF run.ok THEN "ok" ELSE "err")
    ELSE /\ mpc' = mpc
         /\ loc' = [loc EXCEPT !.artist = Some(artist), !.album = Some(album)]
         /\ pc' = "select_song"
         /\ out' = out

select_album_rest ==
    /\ pc = "select_album_rest"
    /\ ~reading
    /\ returned
    /\ IF ~ret.ok THEN Finish("err") /\ UNCHANGED <<loc, picker, stdout, mpc>>
       ELSE IF ret.val = {}
       THEN stdout' = Append(stdout, "No albums found") /\ Finish("ok") /\ UNCHANGED <<loc, picker, mpc>>
       ELSE \E albums \in into_vec(ret.val) :
              LET by_artist == loc.artist.some
                  items == IF by_artist THEN [i \in 1..Len(albums) |-> albums[i][2]]
                           ELSE tab_separated(albums)
              IN  \E o \in RofiOutcomes(Len(items)) :
                    LET r == rofi_select(items, o)
                        index == position(items, r.sel.val)
                    IN  /\ picker' = rofi_spawned(items, "Album:", 0, ~by_artist, o)
                        /\ stdout' = stdout
                        /\ IF ~r.ok THEN Finish("err") /\ UNCHANGED <<loc, mpc>>
                           ELSE IF ~r.sel.some THEN Finish("ok") /\ UNCHANGED <<loc, mpc>>
                           ELSE IF by_artist THEN main_album(loc.artist.val, r.sel.val, r.queue)
                           ELSE IF index.some
                           THEN main_album(albums[index.val + 1][1], albums[index.val + 1][2], r.queue)
                           ELSE Finish("ok") /\ UNCHANGED <<loc, mpc>>
    /\ UNCHANGED <<cli, qfile, greeting, stages, notes, harnessVars>>

\* select_quarantine_album(false), and main's Quarantine arm
select_quarantine_album ==
    /\ pc = "select_quarantine_album"
    /\ stages' = Append(stages, "select_quarantine_album")
    /\ LET loaded == load_quarantine_albums(qfile)
           albums == loaded.val
           items == tab_separated(albums)
           found == IF qfile.kind = "absent" THEN <<"Quarantine file not found">> ELSE <<>>
       IN  IF ~loaded.ok THEN Finish("err") /\ UNCHANGED <<loc, picker, stdout, mpc>>
           ELSE IF is_empty(albums)
           THEN /\ stdout' = stdout \o found \o <<"No quarantine albums found">>
                /\ Finish("ok")
                /\ UNCHANGED <<loc, picker, mpc>>
           ELSE \E o \in RofiOutcomes(Len(items)) :
                  LET r == rofi_select(items, o)
                      index == position(items, r.sel.val)
                  IN  /\ picker' = rofi_spawned(items, "Quarantine Album:", 0, TRUE, o)
                      /\ stdout' = stdout
                      /\ IF ~r.ok THEN Finish("err") /\ UNCHANGED <<loc, mpc>>
                         ELSE IF r.sel.some /\ index.some
                         THEN main_album(albums[index.val + 1][1], albums[index.val + 1][2], r.queue)
                         ELSE Finish("ok") /\ UNCHANGED <<loc, mpc>>
    /\ UNCHANGED <<cli, qfile, greeting, connVars, notes, harnessVars>>

select_song ==
    /\ pc = "select_song"
    /\ stages' = Append(stages, "select_song")
    /\ send_command("list_songs", loc.artist.some /\ loc.album.some,
                    list_songs_cmd(loc.artist, loc.album))
    /\ pc' = "select_song_rest"
    /\ UNCHANGED <<cli, qfile, greeting, loc, picker, mpc, notes, stdout, out, harnessVars>>

\* the rest of select_song, and main up to its call of play_song
select_song_rest ==
    /\ pc = "select_song_rest"
    /\ ~reading
    /\ returned
    /\ IF ~ret.ok THEN Finish("err") /\ UNCHANGED <<loc, picker, stdout>>
       ELSE IF is_empty(ret.val)
       THEN stdout' = Append(stdout, "No songs found") /\ Finish("ok") /\ UNCHANGED <<loc, picker>>
       ELSE LET all_songs == ~loc.artist.some /\ ~loc.album.some
            IN  \E songs \in (IF all_songs THEN shuffle(ret.val) ELSE {ret.val}) :
                \E o \in RofiOutcomes(Len(songs)) :
                  LET r == rofi_select(songs, o)
                      tab_pos == find(r.sel.val, <<"\t">>)
                  IN  /\ picker' = rofi_spawned(songs, "Choose a song:", cli.preselect, all_songs, o)
                      /\ stdout' = stdout
                      /\ IF ~r.ok THEN Finish("err") /\ loc' = loc
                         ELSE IF ~r.sel.some THEN Finish("ok") /\ loc' = loc
                         ELSE IF cli.command # "Song"
                         THEN /\ loc' = [loc EXCEPT !.title = r.sel, !.queue = r.queue]
                              /\ pc' = "play_song"
                              /\ out' = out
                         ELSE IF tab_pos.some
                         THEN /\ loc' = [loc EXCEPT
                                           !.artist = Some(SubSeq(r.sel.val, 1, tab_pos.val)),
                                           !.album = None,
                                           !.title = Some(SubSeq(r.sel.val, tab_pos.val + 2,
                                                                 Len(r.sel.val))),
                                           !.queue = r.queue]
                              /\ pc' = "play_song"
                              /\ out' = out
                         ELSE Finish("ok") /\ loc' = loc
    /\ UNCHANGED <<cli, qfile, greeting, stages, mpc, notes, harnessVars>>

\* play_song from `if !queue_mode` on, with the album it uses
play_song_body(actual_album) ==
    LET artist == loc.artist.val
        title == loc.title.val
    IN  IF ~loc.queue
        THEN \E q \in MpcPlaylists :
               LET songs == split(trim(playlist_str(q)), "\n")
                   found == position(songs, title)
                   cmds == << Mpc("clear", <<>>),
                              Mpc("findadd", (IF actual_album.some
                                              THEN <<kwAlbum, actual_album.val>> ELSE <<>>)
                                             \o <<kwAlbumartist, artist>>),
                              [Mpc("playlist", <<>>) EXCEPT !.output = q],
                              Mpc("play", IF found.some THEN <<to_string(found.val + 1)>>
                                          ELSE <<>>) >>
               IN  \E run \in MpcRuns(cmds) :
                     /\ mpc' = mpc \o run.log
                     /\ stdout' = IF ~run.ok THEN stdout
                                  ELSE Append(stdout, IF found.some THEN "Playing"
                                                      ELSE "Could not find song")
                     /\ Finish(IF run.ok THEN "ok" ELSE "err")
        ELSE LET cmds == << Mpc("findadd", <<kwAlbumartist, artist>>
                                           \o (IF actual_album.some
                                               THEN <<kwAlbum, actual_album.val>> ELSE <<>>)
                                           \o <<kwTitle, title>>) >>
             IN  \E run \in MpcRuns(cmds) :
                   /\ mpc' = mpc \o run.log
                   /\ stdout' = IF run.ok THEN Append(stdout, "Queued") ELSE stdout
                   /\ Finish(IF run.ok THEN "ok" ELSE "err")

\* play_song: with an album it runs through; without it queries find_song_album
play_song ==
    /\ pc = "play_song"
    /\ IF loc.album.some
       THEN play_song_body(loc.album) /\ UNCHANGED connVars
       ELSE /\ send_command("find_song_album", FALSE,
                            find_song_album_cmd(loc.artist.val, loc.title.val))
            /\ pc' = "play_song_rest"
            /\ UNCHANGED <<mpc, stdout, out>>
    /\ UNCHANGED <<cli, qfile, greeting, loc, stages, picker, notes, harnessVars>>

\* play_song taking a failed lookup of the album for "no album"
play_song_rest_lenient ==
    /\ pc = "play_song_rest"
    /\ ~reading
    /\ returned
    /\ IF ~ret.ok THEN play_song_body(None)
       ELSE play_song_body(ret.val)
    /\ UNCHANGED <<cli, qfile, greeting, loc, stages, picker, notes, harnessVars>>

play_song_rest ==
    /\ pc = "play_song_rest"
    /\ ~reading
    /\ returned
    /\ IF ~ret.ok THEN Finish("err") /\ UNCHANGED <<mpc, stdout>>
       ELSE play_song_body(ret.val)
    /\ UNCHANGED <<cli, qfile, greeting, loc, stages, picker, notes, harnessVars>>

\* the album added and played without the clear before it
play_album_no_clear(artist, album, message) ==
    \E run \in MpcRuns(<< findadd_album(artist, album), Mpc("play", <<>>) >>) :
       /\ mpc' = mpc \o run.log
       /\ loc' = [loc EXCEPT !.artist = Some(artist), !.album = Some(album)]
       /\ IF run.ok
          THEN /\ stdout' = Append(stdout, message)
               /\ notes' \in show_notification(artist, album, None)
               /\ Finish("ok")
          ELSE /\ UNCHANGED <<stdout, notes>>
               /\ Finish("err")

\* clear, findadd, play of one album, then the notification
play_album(artist, album, message) ==
    \E run \in MpcRuns(<< Mpc("clear", <<>>), findadd_album(artist, album), Mpc("play", <<>>) >>) :
       /\ mpc' = mpc \o run.log
       /\ loc' = [loc EXCEPT !.artist = Some(artist), !.album = Some(album)]
       /\ IF run.ok
          THEN /\ stdout' = Append(stdout, message)
               /\ notes' \in show_notification(artist, album, None)
               /\ Finish("ok")
          ELSE /\ UNCHANGED <<stdout, notes>>
               /\ Finish("err")

play_random_album ==
    /\ pc = "play_random_album"
    /\ stages' = Append(stages, "play_random_album")
    /\ send_command("list_albums", FALSE, list_albums_cmd(None))
    /\ pc' = "play_random_album_rest"
    /\ UNCHANGED <<cli, qfile, greeting, loc, picker, mpc, notes, stdout, out, harnessVars>>

play_random_album_rest ==
    /\ pc = "play_random_album_rest"
    /\ ~reading
    /\ returned
    /\ IF ~ret.ok THEN Finish("err") /\ UNCHANGED <<loc, mpc, notes, stdout>>
       ELSE IF ret.val = {}
       THEN stdout' = Append(stdout, "No albums found") /\ Finish("ok") /\ UNCHANGED <<loc, mpc, notes>>
       ELSE \E chosen \in ret.val : play_album(chosen[1], chosen[2], "Playing random album")
    /\ UNCHANGED <<cli, qfile, greeting, stages, picker, harnessVars>>

\* select_quarantine_album(true) and the rest of play_random_quarantine_album
play_random_quarantine_album ==
    /\ pc = "play_random_quarantine_album"
    /\ stages' = Append(stages, "select_quarantine_album")
    /\ LET loaded == load_quarantine_albums(qfile)
           albums == loaded.val
           found == IF qfile.kind = "absent" THEN <<"Quarantine file not found">> ELSE <<>>
       IN  IF ~loaded.ok THEN Finish("err") /\ UNCHANGED <<loc, mpc, notes, stdout>>
           ELSE IF is_empty(albums)
           THEN /\ stdout' = stdout \o found \o <<"No quarantine albums found">>
                /\ Finish("ok")
                /\ UNCHANGED <<loc, mpc, notes>>
           ELSE \E i \in 1..Len(albums) :
                  play_album(albums[i][1], albums[i][2], "Playing random quarantine album")
    /\ UNCHANGED <<cli, qfile, greeting, connVars, picker, harnessVars>>

show_playlist ==
    /\ pc = "show_playlist"
    /\ stages' = Append(stages, "show_playlist")
    /\ send_command("get_playlist", FALSE, sPlaylistinfo)
    /\ pc' = "show_playlist_status"
    /\ UNCHANGED <<cli, qfile, greeting, loc, picker, mpc, notes, stdout, out, harnessVars>>

\* show_playlist writing `status` without waiting for the answer to playlistinfo
show_playlist_status_early ==
    /\ pc = "show_playlist_status"
    /\ loc' = loc
    /\ send_command("get_status", FALSE, sStatus)
    /\ pc' = "show_playlist_rest"
    /\ UNCHANGED <<stdout, out>>
    /\ UNCHANGED <<cli, qfile, greeting, stages, picker, mpc, notes, harnessVars>>

\* show_playlist from the return of get_playlist to its get_status
show_playlist_status ==
    /\ pc = "show_playlist_status"
    /\ ~reading
    /\ IF ~ret.ok THEN Finish("err") /\ returned /\ UNCHANGED <<loc, stdout>>
       ELSE IF is_empty(ret.val)
       THEN stdout' = Append(stdout, "Playlist is empty") /\ Finish("ok") /\ returned /\ loc' = loc
       ELSE /\ loc' = [loc EXCEPT !.playlist = ret.val]
            /\ send_command("get_status", FALSE, sStatus)
            /\ pc' = "show_playlist_rest"
            /\ UNCHANGED <<stdout, out>>
    /\ UNCHANGED <<cli, qfile, greeting, stages, picker, mpc, notes, harnessVars>>

sUnknownArtist == <<"U", "n", "k", "n", "o", "w", "n", " ", "A", "r", "t", "i", "s", "t">>

sUnknownAlbum == <<"U", "n", "k", "n", "o", "w", "n", " ", "A", "l", "b", "u", "m">>

sUnknownTitle == <<"U", "n", "k", "n", "o", "w", "n", " ", "T", "i", "t", "l", "e">>

or_unknown(s, unknown) == IF is_empty(s) THEN unknown ELSE s

\* the line shown for a track of the playlist
playlist_item(track) ==
    LET artist == or_unknown(track.artist, sUnknownArtist)
        title == or_unknown(track.title, sUnknownTitle)
        track_num == IF track.track.some THEN split(track.track.val, "/")[1] ELSE <<>>
        number == parse_usize(track_num)
        display_title ==
            IF track.track.some /\ ~is_empty(track_num)
            THEN fmt02(IF number.some THEN number.val ELSE 0) \o <<" ">> \o title
            ELSE title
    IN  artist \o <<"\t">> \o display_title

show_playlist_rest ==
    /\ pc = "show_playlist_rest"
    /\ ~reading
    /\ returned
    /\ IF ~ret.ok THEN Finish("err") /\ UNCHANGED <<picker, mpc, notes>>
       ELSE LET playlist == loc.playlist
                playlist_items == [i \in 1..Len(playlist) |-> playlist_item(playlist[i])]
            IN  \E o \in RofiOutcomes(Len(playlist_items)) :
                  LET r == rofi_select(playlist_items, o)
                      index == position(playlist_items, r.sel.val)
                      track == playlist[index.val + 1]
                  IN  /\ picker' = rofi_spawned(playlist_items, "Playlist:", current_pos(ret.val),
                                                TRUE, o)
                      /\ IF ~r.ok THEN Finish("err") /\ UNCHANGED <<mpc, notes>>
                         ELSE IF r.sel.some /\ index.some
                         THEN \E run \in MpcRuns(<<Mpc("play", <<to_string(index.val + 1)>>)>>) :
                                 /\ mpc' = mpc \o run.log
                                 /\ IF run.ok
                                    THEN /\ notes' \in show_notification(
                                                or_unknown(track.artist, sUnknownArtist),
                                                or_unknown(track.album, sUnknownAlbum),
                                                Some(or_unknown(track.title, sUnknownTitle)))
                                         /\ Finish("ok")
                                    ELSE notes' = notes /\ Finish("err")
                         ELSE Finish("ok") /\ UNCHANGED <<mpc, notes>>
    /\ UNCHANGED <<cli, qfile, greeting, loc, stages, stdout, harnessVars>>

Next ==
    \/ connect
    \/ select_artist
    \/ select_artist_rest
    \/ select_album
    \/ select_album_rest
    \/ select_quarantine_album
    \/ select_song
    \/ select_song_rest
    \/ play_song
    \/ play_song_rest
    \/ play_random_album
    \/ play_random_album_rest
    \/ play_random_quarantine_album
    \/ show_playlist
    \/ show_playlist_status
    \/ show_playlist_rest
    \/ ReadLine
    \/ ReadEof
    \/ ReadIoError

Spec == Init /\ [][Next]_vars

\* nothing of the flows is running
FlowIdle ==
    /\ cli = [command |-> "none", artist |-> None, album |-> None, preselect |-> 0]
    /\ qfile = [kind |-> "absent", content |-> <<>>]
    /\ pc = "idle"
    /\ reading = FALSE
    /\ query = [kind |-> "none", scoped |-> FALSE]
    /\ rx = <<>>
    /\ lines = <<>>
    /\ ret = Ok(<<>>)
    /\ sent = <<>>
    /\ nTerm = 0
    /\ spins = 0
    /\ loc = NoLocals
    /\ stages = <<>>
    /\ picker = <<>>
    /\ mpc = <<>>
    /\ notes = <<>>
    /\ stdout = <<>>
    /\ out = "running"
    /\ greeting = <<>>

(***************************************************************************)
(* send_command on its own: one call, against every server behaviour       *)
(***************************************************************************)
InitWire ==
    /\ FlowIdle
    /\ inp = [body |-> <<>>, scoped |-> FALSE]
    /\ fn = "none"
    /\ res = <<>>

CallSendCommand ==
    /\ pc = "idle"
    /\ \E cmd \in {sStatus, sPlaylistinfo} : send_command("send_command", FALSE, cmd)
    /\ pc' = "called"
    /\ UNCHANGED <<cli, qfile, greeting, loc, stages, picker, mpc, notes, stdout, out, harnessVars>>

NextWire ==
    \/ CallSendCommand
    \/ ReadLine
    \/ ReadEof
    \/ ReadIoError

SpecWire == InitWire /\ [][NextWire]_vars

(***************************************************************************)
(* send_command at the end of the stream.  read_line returns Ok(0) at once *)
(* and leaves `line` empty, every time it is called; the model records the *)
(* first MaxEof of these iterations in rx and lines and counts the ones    *)
(* after them modulo 2.                                                    *)
(***************************************************************************)
ReadEofAgain ==
    /\ reading
    /\ at_eof
    /\ Cardinality({ i \in 1..Len(rx) : rx[i] = <<>> }) = MaxEof
    /\ classify(trim(<<>>)) = "push"
    /\ spins' = 1 - spins
    /\ UNCHANGED <<reading, rx, lines, ret, nTerm, query, sent, nonConnVars, harnessVars>>

\* the iterations of the loop once the stream is at its end: no read blocks
LoopAtEof == at_eof /\ (ReadEof \/ ReadEofAgain)

NextEof ==
    \/ CallSendCommand
    \/ ReadLine
    \/ ReadEof
    \/ ReadIoError
    \/ ReadEofAgain

SpecEof == InitWire /\ [][NextEof]_vars /\ WF_vars(LoopAtEof)

(***************************************************************************)
(* The pure-function harness: a parser applied to a bounded response body  *)
(***************************************************************************)
ParseLines ==
    { pAlbumArtist \o <<"a">>, pAlbumArtist \o <<"b">>,
      pAlbum \o <<"x">>, pAlbum \o <<"y">>,
      pTitle \o <<"t">>, pTrack \o <<"1">>, pFile \o <<"f">>,
      <<"T", "i", "t", "l", "e", ":">> }

ParseBodies == UNION { [1..n -> ParseLines] : n \in 0..MaxParseBody }

InitParse ==
    /\ FlowIdle
    /\ inp \in [body : ParseBodies, scoped : BOOLEAN]
    /\ fn = "none"
    /\ res = <<>>

Apply(f, r) ==
    /\ fn = "none"
    /\ fn' = f
    /\ res' = r
    /\ UNCHANGED <<inp, flowVars>>

ApplyListAlbums == inp.scoped = FALSE /\ Apply("list_albums", list_albums(inp.body))

\* list_albums up to its return: the HashSet collected into the Vec, in some order
ApplyListAlbumsCollect ==
    /\ inp.scoped = FALSE
    /\ \E v \in into_vec(list_albums(inp.body)) : Apply("list_albums_collect", v)

ApplyListArtists == inp.scoped = FALSE /\ Apply("list_artists", list_artists(inp.body))

ApplyListSongs == Apply("list_songs", list_songs(inp.body, inp.scoped))

ApplyGetPlaylist == inp.scoped = FALSE /\ Apply("get_playlist", get_playlist(inp.body))

ApplyFindSongAlbum == inp.scoped = FALSE /\ Apply("find_song_album", find_song_album(inp.body))

NextParse ==
    \/ ApplyListAlbums
    \/ ApplyListAlbumsCollect
    \/ ApplyListArtists
    \/ ApplyListSongs
    \/ ApplyGetPlaylist
    \/ ApplyFindSongAlbum

SpecParse == InitParse /\ [][NextParse]_vars

(***************************************************************************)
(* The command lines of the queries, built from bounded arguments          *)
(***************************************************************************)
MaxArg == 2         \* characters of an argument

ArgChars == {"a", "\"", "\\"}

ArgStrings == UNION { [1..n -> ArgChars] : n \in 0..MaxArg }

InitCmd ==
    /\ FlowIdle
    /\ inp \in [artist : ArgStrings, other : ArgStrings]
    /\ fn = "none"
    /\ res = <<>>

ApplyListAlbumsCmd ==
    /\ inp.other = <<>>
    /\ Apply("list_albums_cmd", list_albums_cmd(Some(inp.artist)))

ApplyListSongsCmd == Apply("list_songs_cmd", list_songs_cmd(Some(inp.artist), Some(inp.other)))

ApplyFindSongAlbumCmd == Apply("find_song_album_cmd", find_song_album_cmd(inp.artist, inp.other))

NextCmd ==
    \/ ApplyListAlbumsCmd
    \/ ApplyListSongsCmd
    \/ ApplyFindSongAlbumCmd

SpecCmd == InitCmd /\ [][NextCmd]_vars

(***************************************************************************)
(* load_quarantine_albums on the lines of a bounded quarantine file        *)
(***************************************************************************)
GrammarLines ==
    { <<"\"", "a", "\"", ",", "\"", "x", "\"">>,
      <<"\"", "a", "\"", ",", " ", "\"", "x", "\"">>,
      <<"\"", "a", "\"", ",", "\t", "\"", "x", "\"">>,
      <<"\"", "a", "\"", " ", ",", "\"", "x", "\"">>,
      <<" ", "\"", "b", "\"", ",", "\"", "y", "\"", " ">>,
      <<"\"", "\"", ",", "\"", "x", "\"">>,
      <<"\"", "a", "\"", ",", "\"", "x">>,
      <<"a", ",", "x">>,
      <<" ">>,
      <<>> }

InitQuarantine ==
    /\ FlowIdle
    /\ inp \in [content : UNION { [1..n -> GrammarLines] : n \in 0..MaxQLines }]
    /\ fn = "none"
    /\ res = <<>>

ApplyLoadQuarantine ==
    Apply("load_quarantine_albums",
          load_quarantine_albums([kind |-> "text", content |-> inp.content]))

NextQuarantine ==
    \/ ApplyLoadQuarantine

SpecQuarantine == InitQuarantine /\ [][NextQuarantine]_vars

(***************************************************************************)
(* Properties                                                              *)
(***************************************************************************)
Last(s) == s[Len(s)]

contains(hay, needle) ==
    \E i \in 0..(Len(hay) - Len(needle)) : SubSeq(hay, i + 1, i + Len(needle)) = needle

\* the position in rx of the first terminal line, 0 when there is none yet
first_terminal ==
    LET hits == { i \in 1..Len(rx) : is_terminal(rx[i]) }
    IN  IF hits = {} THEN 0 ELSE CHOOSE i \in hits : \A j \in hits : i <= j

QueryKinds == {"list_artists", "list_albums", "list_songs", "get_playlist", "get_status",
               "find_song_album"}

\* C1: for every query, when a line beginning with ACK arrives before a line
\* equal to OK, the read loop stops there and the query returns a command
\* error whose text contains the text of that line; the error carries none of
\* the lines accumulated before it and no parsed records.
C1_AckIsError ==
    (query.kind \in QueryKinds /\ first_terminal > 0
       /\ starts_with(line_text(rx[first_terminal]), sACK))
    => /\ ~reading
       /\ first_terminal = Len(rx)
       /\ ~ret.ok
       /\ ret.err.kind = "command"
       /\ contains(ret.err.text, line_text(rx[first_terminal]))
       /\ ret.val = <<>>

\* get_playlist has read two body lines and then the ACK line
C1_Witness ==
    /\ query.kind = "get_playlist"
    /\ Len(rx) = 3
    /\ Len(lines) = 2
    /\ rx[3] = lACK
    /\ ~reading
    /\ ~ret.ok

\* C2: for every response whose first terminal line is a line equal to OK,
\* send_command returns success, its result is exactly the lines received
\* before that OK line (the text of each line, without its newline) in the
\* order received, and nothing is read past the OK line.
C2_LinesBeforeOK ==
    (query.kind = "send_command" /\ first_terminal > 0
       /\ line_text(rx[first_terminal]) = sOK)
    => /\ ~reading
       /\ first_terminal = Len(rx)
       /\ ret = Ok([j \in 1..(first_terminal - 1) |-> line_text(rx[j])])

\* C3: commands and responses alternate on the connection: every write is one
\* command line, and no command is written before the terminal line of the
\* command before it has been read (so the commands written never exceed the
\* terminal lines read by more than one, and exceed them exactly while a
\* response is being read).
C3_Alternation ==
    /\ Len(sent) <= nTerm + 1
    /\ \A i \in 1..Len(sent) :
          /\ sent[i] # <<>>
          /\ { j \in 1..Len(sent[i]) : sent[i][j] = "\n" } = { Len(sent[i]) }
    /\ reading => Len(sent) = nTerm + 1

\* show_playlist has sent its second command after reading the OK of the first
C3_Witness ==
    /\ Len(sent) = 2
    /\ nTerm = 1
    /\ reading
    /\ query.kind = "get_status"

\* ---- get_playlist and list_albums on a response body ----
\* the terminator lines of the body, and the one before position i (0: none)
terminators(body) == { i \in 1..Len(body) : starts_with(body[i], pFile) }

previous_terminator(body, i) ==
    LET before == { j \in terminators(body) : j < i }
    IN  IF before = {} THEN 0 ELSE CHOOSE j \in before : \A k \in before : k <= j

\* the value of the last line with the prefix among body[from+1 .. to-1]
last_value(body, prefix, from, to) ==
    LET hits == { j \in (from + 1)..(to - 1) : starts_with(body[j], prefix) }
        j == CHOOSE h \in hits : \A k \in hits : k <= h
    IN  IF hits = {} THEN None ELSE Some(SubSeq(body[j], Len(prefix) + 1, Len(body[j])))

or_empty(o) == IF o.some THEN o.val ELSE <<>>

\* the Track expected for the terminator line at position i
expected_track(body, i) ==
    LET from == previous_terminator(body, i)
    IN  [artist |-> or_empty(last_value(body, pAlbumArtist, from, i)),
         album |-> or_empty(last_value(body, pAlbum, from, i)),
         title |-> or_empty(last_value(body, pTitle, from, i)),
         track |-> last_value(body, pTrack, from, i),
         file |-> SubSeq(body[i], Len(pFile) + 1, Len(body[i]))]

\* the k-th smallest element of a set of numbers
RECURSIVE kth(_, _)
kth(set, k) ==
    LET least == CHOOSE i \in set : \A j \in set : i <= j
    IN  IF k = 1 THEN least ELSE kth(set \ {least}, k - 1)

\* C9: get_playlist returns one Track per "file: " line of the body, in the
\* order of the body, and the artist, album, title and track number of each
\* are the value of the last line of that key since the previous "file: "
\* line, empty (absent for the track number) when there is none.
C9_OneTrackPerFileLine ==
    fn = "get_playlist"
    => LET body == inp.body
           files == terminators(body)
       IN  /\ Len(res) = Cardinality(files)
           /\ \A k \in 1..Len(res) : res[k] = expected_track(body, kth(files, k))

\* two tracks, the first with an artist and a track number, the second without
C9_Witness ==
    /\ fn = "get_playlist"
    /\ Len(res) = 2
    /\ res[1].artist # <<>>
    /\ res[1].track.some
    /\ res[2].artist = <<>>
    /\ ~res[2].track.some

\* C10: list_albums resets the record at every "file: " line: every pair of
\* the result is an AlbumArtist value and an Album value that both appeared
\* since the terminator line before the one that emitted the pair.
C10_PairFromOneRecord ==
    fn = "list_albums"
    => \A pair \in res :
          \E i \in terminators(inp.body) :
             LET from == previous_terminator(inp.body, i)
             IN  /\ \E j \in (from + 1)..(i - 1) : inp.body[j] = pAlbumArtist \o pair[1]
                 /\ \E j \in (from + 1)..(i - 1) : inp.body[j] = pAlbum \o pair[2]

\* the value of the last line with the prefix before position i, empty when none
value_before(body, prefix, i) == or_empty(last_value(body, prefix, 0, i))

\* C11: list_songs without artist and album returns, in response order, one
\* "artist<TAB>title" entry for every "file: " line of the body, built from
\* the AlbumArtist and Title values of that record, also for a record that
\* has no Title line.
C11_OneSongPerFileLine ==
    (fn = "list_songs" /\ ~inp.scoped)
    => LET body == inp.body
           files == terminators(body)
       IN  /\ Len(res) = Cardinality(files)
           /\ \A k \in 1..Len(res) :
                 LET i == kth(files, k)
                     from == previous_terminator(body, i)
                 IN  res[k] = or_empty(last_value(body, pAlbumArtist, from, i))
                                \o <<"\t">> \o or_empty(last_value(body, pTitle, from, i))

\* the pairs list_albums inserts: at a "file: " line, the last AlbumArtist
\* value and the last Album value read so far, when neither is empty
inserted_pairs(body) ==
    { <<value_before(body, pAlbumArtist, i), value_before(body, pAlbum, i)>> :
        i \in { j \in terminators(body) : /\ value_before(body, pAlbumArtist, j) # <<>>
                                          /\ value_before(body, pAlbum, j) # <<>> } }

\* C12: the sequence list_albums returns contains every pair inserted at some
\* "file: " line, contains nothing else, and contains no pair twice, also
\* when the same pair occurs under several track records.
C12_AlbumsDistinct ==
    fn = "list_albums_collect"
    => /\ \A i, j \in 1..Len(res) : res[i] = res[j] => i = j
       /\ { res[i] : i \in 1..Len(res) } = inserted_pairs(inp.body)

\* the same pair under two track records: one entry
C12_Witness ==
    /\ fn = "list_albums_collect"
    /\ Len(inp.body) = 4
    /\ Cardinality(terminators(inp.body)) = 2
    /\ Len(res) = 1

\* the sequence without the later occurrences of its elements
RECURSIVE distinct(_)
distinct(s) ==
    IF s = <<>> THEN <<>>
    ELSE LET front == distinct(SubSeq(s, 1, Len(s) - 1))
         IN  IF \E i \in 1..(Len(s) - 1) : s[i] = s[Len(s)] THEN front
             ELSE Append(front, s[Len(s)])

\* the non-empty values of the lines with the prefix, in order
RECURSIVE values_of(_, _)
values_of(body, prefix) ==
    IF body = <<>> THEN <<>>
    ELSE LET v == strip_prefix(Head(body), prefix)
         IN  (IF v.some /\ v.val # <<>> THEN <<v.val>> ELSE <<>>)
               \o values_of(Tail(body), prefix)

\* C13: list_artists returns the non-empty AlbumArtist values of the body in
\* response order with no name twice, also when the body has the same
\* AlbumArtist line more than once.
C13_ArtistsDistinct ==
    fn = "list_artists" => res = distinct(values_of(inp.body, pAlbumArtist))


\* ---- the command lines ----
\* the argument as it is to be written: \" for ", every other character as it is
RECURSIVE escaped(_)
escaped(arg) ==
    IF arg = <<>> THEN <<>>
    ELSE escaped(SubSeq(arg, 1, Len(arg) - 1))
           \o (IF arg[Len(arg)] = "\"" THEN <<"\\", "\"">> ELSE <<arg[Len(arg)]>>)

\* the number of backslashes that immediately precede position i
RECURSIVE backslashes_before(_, _)
backslashes_before(s, i) ==
    IF i > 1 /\ s[i - 1] = "\\" THEN 1 + backslashes_before(s, i - 1) ELSE 0

\* the double quotes of the line that no backslash escapes
unescaped_quotes(s) ==
    { i \in 1..Len(s) : s[i] = "\"" /\ backslashes_before(s, i) % 2 = 0 }

\* C14: in the command lines of list_albums, list_songs and find_song_album
\* every double quote of an argument is written as backslash and double
\* quote, every other character unchanged, and each argument stands between
\* exactly one pair of unescaped double quotes: the only unescaped quotes of
\* the line are the ones that open and close the arguments.
C14_ArgumentsQuoted ==
    LET a == escaped(inp.artist)
        o == escaped(inp.other)
        open1 == Len(sFindAlbumartist)
        close1 == open1 + Len(a) + 1
        open2 == close1 + Len(sAlbumArg) - 1
        close2 == open2 + Len(o) + 1
    IN  /\ fn = "list_albums_cmd"
           => /\ res = sFindAlbumartist \o a \o <<"\"">>
              /\ unescaped_quotes(res) = {open1, close1}
        /\ fn = "list_songs_cmd"
           => /\ res = sFindAlbumartist \o a \o sAlbumArg \o o \o <<"\"">>
              /\ unescaped_quotes(res) = {open1, close1, open2, close2}
        /\ fn = "find_song_album_cmd"
           => /\ res = sFindAlbumartist \o a \o sTitleArg \o o \o <<"\"">>
              /\ unescaped_quotes(res) = {open1, close1, open2, close2}


\* ---- the selection flows ----
AlbumPrompts == {"Album:", "Quarantine Album:"}

stage_of(prompt) ==
    CASE prompt = "Artist:" -> "select_artist"
      [] prompt = "Album:" -> "select_album"
      [] prompt = "Quarantine Album:" -> "select_quarantine_album"
      [] prompt = "Choose a song:" -> "select_song"
      [] OTHER -> "show_playlist"

\* the rows of its list that a run of the picker printed as its selection
rows(e) == { r \in 1..Len(e.items) : e.outcome.text = to_string(r) \o <<"\n">> }

row(e) == CHOOSE r \in rows(e) : TRUE

\* the picker ran and reported a selection with the alternate (queue) exit
alternate(e) == e.outcome.spawn /\ e.outcome.exit = 10 /\ rows(e) # {}

\* the picker ran and was cancelled
cancelled(e) == e.outcome.spawn /\ e.outcome.exit = 1

\* the run is a queue-mode dispatch: alternate exit at an album or song stage
queue_mode ==
    \E i \in 1..Len(picker) :
       picker[i].prompt \in AlbumPrompts \cup {"Choose a song:"} /\ alternate(picker[i])

\* C4: a queue-mode dispatch issues no `mpc clear` during the run; a play-mode
\* dispatch (play_song with queue_mode false, play_random_album,
\* play_random_quarantine_album) issues `mpc clear` as its first command, so
\* before the add, and a play-mode dispatch that ends in success has issued it.
C4_ClearOnlyInPlayMode ==
    /\ queue_mode => \A k \in 1..Len(mpc) : mpc[k].op # "clear"
    /\ (~queue_mode /\ cli.command # "Playlist" /\ mpc # <<>>)
       => /\ mpc[1].op = "clear"
          /\ \A k \in 1..Len(mpc) : mpc[k].op = "findadd" => k = 2
    /\ (~queue_mode /\ pc = "done" /\ out = "ok"
          /\ (loc.title.some \/ (cli.command \in {"Random", "RandomQuarantine"} /\ loc.album.some)))
       => Len(mpc) >= 2 /\ mpc[1].op = "clear" /\ mpc[2].op = "findadd"

\* the Artist flow, alternate exit at the song stage: the song is added, no clear
C4_Witness ==
    /\ cli.command = "Artist"
    /\ Len(picker) = 3
    /\ alternate(picker[3])
    /\ Len(mpc) = 1
    /\ mpc[1].op = "findadd"
    /\ mpc[1].ok
    /\ out = "ok"

\* C5: in the Artist, Album, Quarantine and default flows, when the picker
\* returns an album with the alternate exit, the resolved (artist, album) is
\* added with one findadd and the run ends: select_song is never entered, the
\* picker is not run again, and no other mpc command (clear, play) is issued.
C5_AlbumQueueEndsFlow ==
    \A i \in 1..Len(picker) :
       (picker[i].prompt \in AlbumPrompts /\ alternate(picker[i]))
       => LET e == picker[i]
              item == e.items[row(e)]
          IN  /\ cli.command \in {"Artist", "Album", "Quarantine", "None"}
              /\ i = Len(picker)
              /\ pc = "done"
              /\ \A k \in 1..Len(stages) : stages[k] # "select_song"
              /\ Len(mpc) = 1
              /\ mpc[1].op = "findadd"
              /\ Len(mpc[1].args) = 4
              /\ mpc[1].args[1] = kwAlbum
              /\ mpc[1].args[3] = kwAlbumartist
              /\ IF e.columns
                 THEN item = mpc[1].args[4] \o <<"\t">> \o mpc[1].args[2]
                 ELSE /\ mpc[1].args[2] = item
                      /\ mpc[1].args[4] = IF i > 1 THEN picker[i - 1].items[row(picker[i - 1])]
                                          ELSE cli.artist.val
              /\ out = IF mpc[1].ok THEN "ok" ELSE "err"

\* the Artist flow: an artist is chosen, then an album with the alternate exit
C5_Witness ==
    /\ cli.command = "Artist"
    /\ Len(picker) = 2
    /\ picker[2].prompt = "Album:"
    /\ alternate(picker[2])
    /\ Len(mpc) = 1
    /\ mpc[1].ok
    /\ pc = "done"

\* C6: at every selection state, when the picker is cancelled the run ends in
\* success: no mpc command is issued, no notification is shown, the picker is
\* not run again and no later selection state is entered.
C6_CancelEndsFlow ==
    \A i \in 1..Len(picker) :
       cancelled(picker[i])
       => /\ i = Len(picker)
          /\ pc = "done"
          /\ out = "ok"
          /\ mpc = <<>>
          /\ notes = <<>>
          /\ Last(stages) = stage_of(picker[i].prompt)

\* the Artist flow cancelled at the song stage, with a row highlighted
C6_Witness ==
    /\ cli.command = "Artist"
    /\ Len(picker) = 3
    /\ picker[3].prompt = "Choose a song:"
    /\ cancelled(picker[3])
    /\ rows(picker[3]) # {}
    /\ pc = "done"

\* C7: play_song in play mode with a title that ran through has issued clear,
\* findadd of the album (by album and artist, by artist alone when no album
\* is known), playlist, and then play with the 1-based position of the first
\* queue entry whose title equals the requested title, or play without a
\* position when no entry has that title; it returns success.
C7_PlaySongJumpsToTitle ==
    (cli.command # "Playlist" /\ loc.title.some /\ ~loc.queue /\ pc = "done"
       /\ mpc # <<>> /\ Last(mpc).ok)
    => LET title == loc.title.val
           album == IF loc.album.some THEN loc.album ELSE ret.val
           queue == mpc[3].output
           hits == { k \in 1..Len(queue) : queue[k] = title }
           first == CHOOSE k \in hits : \A j \in hits : k <= j
       IN  /\ Len(mpc) = 4
           /\ <<mpc[1].op, mpc[2].op, mpc[3].op, mpc[4].op>>
                = <<"clear", "findadd", "playlist", "play">>
           /\ mpc[2].args = (IF album.some THEN <<kwAlbum, album.val>> ELSE <<>>)
                              \o <<kwAlbumartist, loc.artist.val>>
           /\ mpc[4].args = IF hits = {} THEN <<>> ELSE <<to_string(first)>>
           /\ out = "ok"

\* the flow is at the end of the named state, or has ended there in success
ends_here(stage_names, prompt, rest) ==
    /\ pc \in rest \cup {"done"}
    /\ pc = "done" => out = "ok"
    /\ Last(stages) \in stage_names
    /\ \A i \in 1..Len(picker) : picker[i].prompt # prompt
    /\ mpc = <<>>
    /\ notes = <<>>

\* C8: when the candidate list of a selection state or of play_random_album
\* is empty, the flow ends in success at that state: the picker is not run
\* for it, no mpc command is issued and no later state is entered.
C8_EmptyListEndsFlow ==
    /\ (~reading /\ ret.ok /\ query.kind = "list_artists" /\ ret.val = <<>>)
       => ends_here({"select_artist"}, "Artist:", {"select_artist_rest"})
    /\ (~reading /\ ret.ok /\ query.kind = "list_albums" /\ ret.val = {})
       => ends_here({"select_album", "play_random_album"}, "Album:",
                    {"select_album_rest", "play_random_album_rest"})
    /\ (~reading /\ ret.ok /\ query.kind = "list_songs" /\ ret.val = <<>>)
       => ends_here({"select_song"}, "Choose a song:", {"select_song_rest"})
    /\ (~reading /\ ret.ok /\ query.kind = "get_playlist" /\ ret.val = <<>>)
       => ends_here({"show_playlist"}, "Playlist:", {"show_playlist_status"})
    /\ (stages # <<>> /\ Last(stages) = "select_quarantine_album"
          /\ load_quarantine_albums(qfile) = Ok(<<>>))
       => ends_here({"select_quarantine_album"}, "Quarantine Album:", {})

\* the Artist flow: artist and album are chosen, the album has no songs
C8_Witness ==
    /\ cli.command = "Artist"
    /\ ~reading
    /\ query.kind = "list_songs"
    /\ ret = Ok(<<>>)
    /\ Len(picker) = 2
    /\ pc = "done"
    /\ out = "ok"

\* C15: when the first line received on connect does not begin with
\* "OK MPD", connect returns an error and the run ends there: no command is
\* sent to the server, no selection method is entered, the picker, mpc and
\* the notifier are not run.
C15_BadGreetingEndsRun ==
    (pc # "main" /\ ~starts_with(greeting, <<"O", "K", " ", "M", "P", "D">>))
    => /\ pc = "done"
       /\ out = "err"
       /\ sent = <<>>
       /\ stages = <<>>
       /\ picker = <<>>
       /\ mpc = <<>>
       /\ notes = <<>>

\* the server greeted with a line that is not the sentinel
C15_Witness ==
    /\ pc = "done"
    /\ greeting = <<"h", "i", "\n">>
    /\ out = "err"

\* C16: every call of play_song is made with a non-empty artist and a
\* non-empty title, in the all-songs flow too, where the artist is the part
\* of the chosen item before its first tab.
C16_PlaySongArtistAndTitle ==
    pc \in {"play_song", "play_song_rest"}
    => /\ loc.artist.some /\ loc.artist.val # <<>>
       /\ loc.title.some /\ loc.title.val # <<>>

\* a dispatch that completed: the run ended in success and mpc was run
dispatched == pc = "done" /\ out = "ok" /\ mpc # <<>>

\* C17: every dispatch that completes successfully (play_song in play and in
\* queue mode, the album queue dispatch of main, play_random_album,
\* play_random_quarantine_album, the playlist jump) is followed by one
\* attempt to show a notification, and the run is a success whether or not
\* the notifier could show it.
C17_DispatchNotifies ==
    /\ dispatched => Len(notes) = 1
    /\ notes # <<>> => out = "ok"

\* the albums play_random_album and play_random_quarantine_album choose from
candidates ==
    IF cli.command = "Random" THEN ret.val
    ELSE { load_quarantine_albums(qfile).val[i] :
             i \in 1..Len(load_quarantine_albums(qfile).val) }

\* C18: play_random_album and play_random_quarantine_album never run the
\* picker; what they dispatch is clear, findadd of an (artist, album) of the
\* candidate set, play from the top, in that order (a command that cannot be
\* started ends the run with the commands before it issued), and with a
\* non-empty candidate set a run that ends in success has issued all three.
C18_RandomPlaysCandidate ==
    cli.command \in {"Random", "RandomQuarantine"}
    => /\ picker = <<>>
       /\ \A k \in 1..Len(stages) : stages[k] \in {"play_random_album", "select_quarantine_album"}
       /\ mpc # <<>>
          => /\ Len(mpc) <= 3
             /\ mpc[1].op = "clear" /\ mpc[1].args = <<>>
             /\ Len(mpc) >= 2
                => /\ mpc[2].op = "findadd"
                   /\ Len(mpc[2].args) = 4
                   /\ mpc[2].args[1] = kwAlbum
                   /\ mpc[2].args[3] = kwAlbumartist
                   /\ <<mpc[2].args[4], mpc[2].args[2]>> \in candidates
             /\ Len(mpc) = 3 => (mpc[3].op = "play" /\ mpc[3].args = <<>>)
       /\ (pc = "done" /\ out = "ok" /\ stdout = <<"Playing random album">>) => Len(mpc) = 3
       /\ (pc = "done" /\ out = "ok" /\ stdout = <<"Playing random quarantine album">>)
          => Len(mpc) = 3

\* play_random_album has played an album of a catalog response
C18_Witness ==
    /\ cli.command = "Random"
    /\ pc = "done"
    /\ out = "ok"
    /\ Len(mpc) = 3
    /\ mpc[3].ok
    /\ ret.val # {}

\* ---- the quarantine file ----
\* the line without its leading and trailing whitespace
stripped(s) ==
    LET keep == { i \in 1..Len(s) : s[i] \notin WS }
        lo == CHOOSE i \in keep : \A j \in keep : i <= j
        hi == CHOOSE i \in keep : \A j \in keep : j <= i
    IN  IF keep = {} THEN <<>> ELSE SubSeq(s, lo, hi)

\* the (artist, album) pairs a line is read as: "A", then a comma, then at
\* whitespace (none when strict), then "B", with no quote in A and B
grammar_pairs(t, strict) ==
    { <<SubSeq(t, 2, nw[1] + 1), SubSeq(t, nw[1] + nw[2] + 5, Len(t) - 1)>> :
        nw \in { p \in (0..Len(t)) \X (0..(IF strict THEN 0 ELSE Len(t))) :
                   /\ Len(t) >= p[1] + p[2] + 5
                   /\ t[1] = "\""
                   /\ t[p[1] + 2] = "\""
                   /\ t[p[1] + 3] = ","
                   /\ \A i \in (p[1] + 4)..(p[1] + 3 + p[2]) : t[i] \in WS
                   /\ t[p[1] + p[2] + 4] = "\""
                   /\ t[Len(t)] = "\""
                   /\ \A i \in 2..(p[1] + 1) : t[i] # "\""
                   /\ \A i \in (p[1] + p[2] + 5)..(Len(t) - 1) : t[i] # "\"" } }

\* one entry per line that is read as a pair, in the order of the lines
RECURSIVE grammar_entries(_, _)
grammar_entries(content, strict) ==
    IF content = <<>> THEN <<>>
    ELSE LET pairs == grammar_pairs(stripped(Head(content)), strict)
         IN  (IF pairs = {} THEN <<>> ELSE <<CHOOSE p \in pairs : TRUE>>)
               \o grammar_entries(Tail(content), strict)

\* C19: load_quarantine_albums returns no error because of the content or
\* the absence of the file: a run of a quarantine flow in which neither the
\* picker nor mpc was run has ended in success; with an absent file nothing
\* is offered and the picker is not run; for a present file the entries
\* offered are one per line of the quoted-pair form, in file order.
C19_QuarantineLoadNeverFails ==
    (stages # <<>> /\ stages[1] = "select_quarantine_album"
       /\ qfile.kind \in {"absent", "text", "binary"})
    => /\ (picker = <<>> /\ mpc = <<>>) => (pc = "done" /\ out = "ok")
       /\ qfile.kind = "absent" => (picker = <<>> /\ mpc = <<>>)
       /\ picker # <<>>
          => picker[1].items = tab_separated(grammar_entries(qfile.content, FALSE))

prompt_after(kind) ==
    CASE kind = "list_artists" -> "Artist:"
      [] kind = "list_albums" -> "Album:"
      [] kind = "list_songs" -> "Choose a song:"
      [] OTHER -> "Playlist:"

\* C21: when a query returns a command error or an I/O error, the flow stops
\* there: no mpc command (clear, findadd, play) is issued and no notification
\* shown, the picker of the failed state is not run (after a failed
\* get_playlist or get_status of show_playlist no picker at all), and main
\* ends with the error.
C21_QueryErrorEndsFlow ==
    (~reading /\ ~ret.ok /\ query.kind \in QueryKinds)
    => /\ ret.err.kind \in {"command", "io"}
       /\ pc = "done" => out = "err"
       /\ pc # "done" => out = "running"
       /\ mpc = <<>>
       /\ notes = <<>>
       /\ query.kind # "find_song_album"
          => \A i \in 1..Len(picker) : picker[i].prompt # prompt_after(query.kind)
       /\ query.kind \in {"get_playlist", "get_status"} => picker = <<>>
       /\ query.kind = "find_song_album" => Len(picker) = 1

\* the all-songs flow: a song is chosen, the find for its album is answered
\* with an ACK line, main has ended
C21_Witness ==
    /\ cli.command = "Song"
    /\ query.kind = "find_song_album"
    /\ ~reading
    /\ ~ret.ok
    /\ ret.err.kind = "command"
    /\ Len(picker) = 1
    /\ pc = "done"
    /\ out = "err"

\* ---- the playlist jump ----
\* the picker ran and reported a selection, with either exit
chosen(e) == e.outcome.spawn /\ e.outcome.exit # 1 /\ rows(e) # {}

\* C22: in show_playlist, for every playlist (two entries shown with the same
\* artist and title included) and every row i the picker reports, the play
\* command jumps to queue position i and the notification describes the
\* track at position i of the playlist.
C22_JumpsToChosenRow ==
    \A k \in 1..Len(picker) :
       (picker[k].prompt = "Playlist:" /\ chosen(picker[k]))
       => LET i == row(picker[k])
              track == loc.playlist[i]
          IN  /\ pc = "done"
              /\ Len(mpc) = 1
              /\ mpc[1].op = "play"
              /\ mpc[1].args = <<to_string(i)>>
              /\ notes # <<>>
                 => /\ notes[1].artist = or_unknown(track.artist, sUnknownArtist)
                    /\ notes[1].album = or_unknown(track.album, sUnknownAlbum)
                    /\ notes[1].title = Some(or_unknown(track.title, sUnknownTitle))

\* ---- termination of send_command ----
\* C23: send_command terminates on every finite server behaviour: when the
\* server has closed the connection before a line equal to OK or a line
\* beginning with ACK, send_command eventually returns.
C23_EofReturns == (reading /\ at_eof) ~> ~reading

\* ---- the artist stage ----
\* C24: in the Artist flow the alternate (queue) exit of the picker at the
\* artist stage is treated as accept: with either exit the flow goes on to
\* select_album for the chosen artist, nothing is dispatched at the artist
\* stage, and no findadd without an album filter is ever issued.
C24_ArtistExitIsAccept ==
    (cli.command = "Artist" /\ picker # <<>> /\ chosen(picker[1]))
    => LET artist == picker[1].items[row(picker[1])]
       IN  /\ picker[1].prompt = "Artist:"
           /\ loc.artist = Some(artist)
           /\ pc = "select_album" \/ (Len(stages) >= 2 /\ stages[2] = "select_album")
           /\ Len(sent) >= 2 => sent[2] = list_albums_cmd(Some(artist)) \o <<"\n">>
           /\ Len(picker) = 1 => (mpc = <<>> /\ ~loc.queue)
           /\ \A k \in 1..Len(mpc) :
                 mpc[k].op = "findadd"
                 => \E j \in 1..(Len(mpc[k].args) - 1) :
                       /\ j % 2 = 1
                       /\ mpc[k].args[j] = kwAlbum
                       /\ mpc[k].args[j + 1] = loc.album.val

\* an artist is chosen with the alternate exit and select_album has sent its query
C24_Witness ==
    /\ cli.command = "Artist"
    /\ Len(picker) = 1
    /\ alternate(picker[1])
    /\ Len(stages) = 2
    /\ stages[2] = "select_album"
    /\ Len(sent) = 2
    /\ reading

\* ---- the album of a song chosen from all songs ----
\* the value of the first Album line of a response, if it has one
first_album(response) ==
    LET hits == { i \in 1..Len(response) : starts_with(line_text(response[i]), pAlbum) }
        first == CHOOSE i \in hits : \A j \in hits : i <= j
    IN  IF hits = {} THEN None
        ELSE Some(SubSeq(line_text(response[first]), Len(pAlbum) + 1,
                         Len(line_text(response[first]))))

\* C25: in the all-songs flow play_song is called without an album and looks
\* it up with a find for (artist, title); the album it uses is the value of
\* the first Album line of the response; a response without an Album line
\* gives "not found", not an error, and the dispatch goes on filtered by
\* artist (and by title in queue mode) without an album filter.
C25_AlbumLookedUp ==
    cli.command = "Song"
    => /\ pc \in {"play_song", "play_song_rest"} => loc.album = None
       /\ query.kind = "find_song_album"
          => Last(sent) = find_song_album_cmd(loc.artist.val, loc.title.val) \o <<"\n">>
       /\ (pc = "play_song_rest" /\ ~reading /\ rx # <<>> /\ Last(rx) = lOK)
          => ret = Ok(first_album(rx))
       /\ mpc # <<>>
          => /\ query.kind = "find_song_album"
             /\ ret.ok
             /\ LET filter == IF ret.val.some THEN <<kwAlbum, ret.val.val>> ELSE <<>>
                IN  IF loc.queue
                    THEN /\ Len(mpc) = 1
                         /\ mpc[1].op = "findadd"
                         /\ mpc[1].args = <<kwAlbumartist, loc.artist.val>> \o filter
                                            \o <<kwTitle, loc.title.val>>
                    ELSE /\ mpc[1].op = "clear"
                         /\ Len(mpc) >= 2
                            => /\ mpc[2].op = "findadd"
                               /\ mpc[2].args = filter \o <<kwAlbumartist, loc.artist.val>>

\* the find was answered without an Album line and the song was queued
C25_Witness ==
    /\ cli.command = "Song"
    /\ query.kind = "find_song_album"
    /\ ret = Ok(None)
    /\ loc.queue
    /\ Len(mpc) = 1
    /\ Len(mpc[1].args) = 4
    /\ mpc[1].ok
    /\ pc = "done"
    /\ out = "ok"

====
